---- MODULE Spec2Model ----
(***************************************************************************)
(* Model of the Hyrise Cockpit fleet control plane.                        *)
(*                                                                         *)
(*  - SpecAgent   : the Instance Agent's throughput counter and its        *)
(*                  periodic CounterFlush job                              *)
(*                  (src/hyrise_interface/HyriseInterface.py).             *)
(*  - SpecGateway : the gateway's two REQ control channels and the         *)
(*                  StartWorkload / StopWorkload workflows                 *)
(*                  (src/hyrisecockpit/backend/app.py).                    *)
(*  - SpecLookup  : the gateway handlers that return one field of a Fleet   *)
(*                  Manager response (status, get databases).              *)
(*  - SpecGatewayFair : SpecGateway with the fairness the code's           *)
(*                  scheduling gives (every handler thread keeps running,  *)
(*                  a live peer answers).                                  *)
(*  - SpecAggregator : the five metrics handlers of the gateway and the    *)
(*                  time-series store they query.                          *)
(*  - SpecRegistry : the agent's instance registry (add / pop).            *)
(*  - SpecDriver  : validate_connection and the connection pool of the     *)
(*                  database driver                                        *)
(*                  (src/hyrisecockpit/database_manager/driver.py).        *)
(*  - SpecConstruction : HyriseInterface.__init__ after the scheduler was  *)
(*                  started, with the CounterFlush job already running.    *)
(***************************************************************************)
EXTENDS Integers, Sequences, FiniteSets, TLC

\* ------------------------------------------------------------------ bounds
MaxExecutions == 4   \* successful query executions in one run of the agent
MaxTicks == 3        \* CounterFlush ticks in one run of the agent
MaxInvocations == 2  \* external workflow requests served in one run
MaxRequests == 2     \* requests the agent's dispatch loop reads in one run
MaxWorkloadLen == 2  \* statements in the content of one 'workload' request
MaxClockTicks == 4   \* steps of 250 ms the clock makes in one run
MaxCalls == 2        \* metrics requests served in one run
MaxSamples == 2      \* samples written to the time-series store in one run
MaxMetricsRequests == 3  \* membership lookups of metrics handlers in one run

\* ---------------------------------------------------------------- variables
VARIABLES
  \* --- Instance Agent ---
  rCounter,            \* redis key "throughput_counter"
  throughput_counter,  \* self.throughput_counter: the published value (a str)
  flushPc,             \* position of the CounterFlush job in update_throughput
  executed,            \* history: successful executions so far
  ticks,               \* history: flush ticks that published a value so far
  publishedSum,        \* history: sum of the values published by all ticks
  sinceTick,           \* history: executions since the last tick's boundary
  epochTrue,           \* history: executions in the epoch the last tick ended
  captured,            \* history: the counter value the last tick read
  racing,              \* history: an execution landed inside the last flush
  epochRaced,          \* history: ... inside the flush that began the epoch
  agentPc,             \* dispatch loop: "recv" (Idle), "dispatch", "crashed"
  data,                \* dispatch loop: the request being handled
  remaining,           \* dispatch loop: statements still to execute
  lastResponse,        \* dispatch loop: the response sent last
  received,            \* history: requests read by the loop
  sent,                \* history: responses sent by the loop
  storage_data,        \* redis key "storage_data" ("none": key not set)
  \* --- Gateway ---
  pc,                  \* per handler thread: "idle", "send", "recv", "done"
  op,                  \* per handler thread: the workflow it runs
  step,                \* per handler thread: the workflow step (1 or 2)
  invocations,         \* external requests accepted so far
  result,              \* per handler thread: what the handler returned
  sentLog,             \* history: requests the invocation put on a channel
  readLog,             \* history: responses the invocation read
  receiving,           \* per socket: REQ state "request sent, reply not read"
  reqs,                \* per socket: requests on the wire, not yet answered
  resps,               \* per socket: responses delivered, not yet read
  peerUp,              \* per socket: the peer service is running
  poisoned,            \* history: a call on the socket failed in transport
  issuedOnPoisoned,    \* history: send_json was called on a poisoned socket
  afterViolation,      \* history, per socket: a response read from it failed
                       \* validation and no request was issued on it since
  \* --- Metrics Aggregator ---
  now,                 \* the wall clock, in ns (what time_ns() returns)
  store,               \* the time-series store: the samples recorded so far
  aggPc,               \* metrics handler: "idle", "lookup", "query", "done"
  variant,             \* metrics handler: the variant being served
  calls,               \* metrics requests accepted so far
  currentts,           \* local of the handler: the time read at its start
  startts,             \* local of the handler: start of the window
  endts,               \* local of the handler: end of the window
  active_databases,    \* local of the handler: ids the lookup returned
  qi,                  \* position of the handler's loop in active_databases
  acc,                 \* the dict / list the handler's loop fills
  aggResult,           \* what the metrics handler returned
  lookup,              \* history: was the lookup's response valid
  queries,             \* history: store queries this call issued
  windows,             \* history: the window of every call so far
  \* --- Instance registry of the agent ---
  databases,           \* self.databases: id -> connection data
  regCall,             \* history: the last add / pop call, what it returned,
                       \* the registry before it and the call before it
  \* --- Database driver ---
  drvPc,               \* registration: "idle", "validate", "create"
  drvCurrent,          \* registration: the id and access_data being added
  attempts,            \* connect(...) calls of the last validate_connection
  connected,           \* history: how the server answered the last connect
  drvRaised,           \* the exception the last validate_connection raised
  pools,               \* id -> access_data of the Driver's connection pool
  validated,           \* history: (id, access_data) the server has accepted
  \* --- construction of the agent ---
  initPc,              \* the line __init__ runs next ("done": constructed)
  selfR,               \* self.r is assigned
  tcSet,               \* self.throughput_counter is assigned
  counterKey,          \* the redis key "throughput_counter" exists
  fired                \* history: times the scheduler fired the flush job

counterVars == <<rCounter, throughput_counter, flushPc, executed, ticks,
                 publishedSum, sinceTick, epochTrue, captured, racing,
                 epochRaced>>

loopVars == <<agentPc, data, remaining, lastResponse, received, sent,
              storage_data>>

agentVars == <<counterVars, loopVars>>

gatewayVars == <<pc, op, step, invocations, result, sentLog, readLog,
                 receiving, reqs, resps, peerUp, poisoned, issuedOnPoisoned,
                 afterViolation>>

aggVars == <<now, store, aggPc, variant, calls, currentts, startts, endts,
             active_databases, qi, acc, aggResult, lookup, queries, windows>>

\* The state of the subsystems added after the agent and the gateway.
regVars == <<databases, regCall>>

drvVars == <<drvPc, drvCurrent, attempts, connected, drvRaised, pools,
             validated>>

ctorVars == <<initPc, selfR, tcSet, counterKey, fired>>

otherVars == <<aggVars, regVars, drvVars, ctorVars>>

vars == <<agentVars, gatewayVars, otherVars>>

\* ------------------------------------------------- str <-> int conversions
Digits == <<"0", "1", "2", "3", "4", "5", "6", "7", "8", "9">>

RECURSIVE Utf8Decode(_)
\* bytes of a redis integer value, decoded: its decimal digits
Utf8Decode(n) ==
  IF n < 10 THEN <<Digits[n + 1]>>
  ELSE Utf8Decode(n \div 10) \o <<Digits[(n % 10) + 1]>>

DigitValue(c) == CHOOSE d \in 0..9 : Digits[d + 1] = c

RECURSIVE StrToInt(_)
StrToInt(s) ==
  IF Len(s) = 0 THEN 0
  ELSE 10 * StrToInt(SubSeq(s, 1, Len(s) - 1)) + DigitValue(s[Len(s)])

\* ============================================================ Instance Agent
\* State after HyriseInterface.__init__: throughput_counter = "0" and
\* init_redis has set the redis counter to 0.
InitAgentVars ==
  /\ rCounter = 0
  /\ throughput_counter = <<"0">>
  /\ flushPc = "idle"
  /\ executed = 0
  /\ ticks = 0
  /\ publishedSum = 0
  /\ sinceTick = 0
  /\ epochTrue = 0
  /\ captured = 0
  /\ racing = FALSE
  /\ epochRaced = FALSE

\* A successful query execution (load generator, possibly another process)
\* increments the shared counter by one, atomically.
Increment ==
  /\ executed < MaxExecutions
  /\ rCounter' = rCounter + 1
  /\ executed' = executed + 1
  /\ sinceTick' = sinceTick + 1
  /\ racing' = (racing \/ flushPc = "reset")
  /\ UNCHANGED <<throughput_counter, flushPc, ticks, publishedSum, epochTrue,
                 captured, epochRaced>>
  /\ UNCHANGED <<loopVars, gatewayVars, otherVars>>

\* update_throughput, line 46: read the counter and publish it.
FlushRead ==
  /\ flushPc = "idle"
  /\ ticks < MaxTicks
  /\ throughput_counter' = Utf8Decode(rCounter)
  /\ flushPc' = "reset"
  /\ ticks' = ticks + 1
  /\ publishedSum' = publishedSum + rCounter
  /\ epochTrue' = sinceTick
  /\ sinceTick' = 0
  /\ captured' = rCounter
  /\ epochRaced' = racing
  /\ racing' = FALSE
  /\ UNCHANGED <<rCounter, executed>>
  /\ UNCHANGED <<loopVars, gatewayVars, otherVars>>

\* Variant: the counter is not set back to 0 after it was published.
FlushResetSkipped ==
  /\ flushPc = "reset"
  /\ flushPc' = "idle"
  /\ UNCHANGED <<rCounter, throughput_counter, executed, ticks, publishedSum,
                 sinceTick, epochTrue, captured, racing, epochRaced>>
  /\ UNCHANGED <<loopVars, gatewayVars, otherVars>>

\* update_throughput, line 48: set the counter to 0.
FlushReset ==
  /\ flushPc = "reset"
  /\ rCounter' = 0
  /\ flushPc' = "idle"
  /\ UNCHANGED <<throughput_counter, executed, ticks, publishedSum,
                 sinceTick, epochTrue, captured, racing, epochRaced>>
  /\ UNCHANGED <<loopVars, gatewayVars, otherVars>>

\* ------------------------------------------------- the command dispatch loop
RECURSIVE SeqsUpTo(_, _)
SeqsUpTo(S, n) ==
  IF n = 0 THEN {<<>>}
  ELSE SeqsUpTo(S, n - 1) \cup
       {Append(q, x) : q \in {r \in SeqsUpTo(S, n - 1) : Len(r) = n - 1},
                       x \in S}

\* A statement either succeeds on the database or the database reports an
\* error for it.
Statements == {"ok", "bad"}

\* The requests a client can send: data["Content-Type"] and data["Content"]
\* ("none": the data has no "Content-Type" key).
Requests ==
  {[ctype |-> "query", content |-> <<st>>] : st \in Statements}
  \cup {[ctype |-> "workload", content |-> w] :
          w \in SeqsUpTo(Statements, MaxWorkloadLen)}
  \cup {[ctype |-> c, content |-> <<>>] :
          c \in {"storage_data", "throughput", "runtime_information",
                 "bogus", "none"}}

NoRequest == [ctype |-> "none", content |-> <<>>]
NoThroughput == <<>>
Text(string) == [text |-> string, throughput |-> NoThroughput]
\* json.dumps({"throughput": value})
JsonThroughput(value) == [text |-> "json", throughput |-> value]

\* Variant: the 'throughput' branch answers with the live counter.
DispatchLiveCounter(d) ==
  IF d.ctype = "none" THEN [crash |-> TRUE, response |-> Text("")]
  ELSE IF d.ctype \in {"query", "workload"}
  THEN [crash |-> FALSE, response |-> Text("OK")]
  ELSE IF d.ctype = "storage_data"
  THEN IF storage_data = "none"
       THEN [crash |-> TRUE, response |-> Text("")]
       ELSE [crash |-> FALSE, response |-> Text(storage_data)]
  ELSE IF d.ctype = "throughput"
  THEN [crash |-> FALSE, response |-> JsonThroughput(Utf8Decode(rCounter))]
  ELSE IF d.ctype = "runtime_information"
  THEN [crash |-> FALSE, response |-> Text("[NOT IMPLEMENTED YETWorkload]")]
  ELSE [crash |-> FALSE, response |-> Text("[Error]")]

\* Variant: the branch chain has no final else; response stays "".
DispatchNoElse(d) ==
  IF d.ctype = "none" THEN [crash |-> TRUE, response |-> Text("")]
  ELSE IF d.ctype \in {"query", "workload"}
  THEN [crash |-> FALSE, response |-> Text("OK")]
  ELSE IF d.ctype = "storage_data"
  THEN IF storage_data = "none"
       THEN [crash |-> TRUE, response |-> Text("")]
       ELSE [crash |-> FALSE, response |-> Text(storage_data)]
  ELSE IF d.ctype = "throughput"
  THEN [crash |-> FALSE, response |-> JsonThroughput(throughput_counter)]
  ELSE IF d.ctype = "runtime_information"
  THEN [crash |-> FALSE, response |-> Text("[NOT IMPLEMENTED YETWorkload]")]
  ELSE [crash |-> FALSE, response |-> Text("")]

\* start, lines 60-75: the response of each branch, once the statements of a
\* 'query' / 'workload' have run. crash: the branch raises (KeyError on a
\* data without "Content-Type"; AttributeError on None.decode when the
\* redis key "storage_data" is not set) and the exception ends the loop.
Dispatch(d) ==
  IF d.ctype = "none" THEN [crash |-> TRUE, response |-> Text("")]
  ELSE IF d.ctype \in {"query", "workload"}
  THEN [crash |-> FALSE, response |-> Text("OK")]
  ELSE IF d.ctype = "storage_data"
  THEN IF storage_data = "none"
       THEN [crash |-> TRUE, response |-> Text("")]
       ELSE [crash |-> FALSE, response |-> Text(storage_data)]
  ELSE IF d.ctype = "throughput"
  THEN [crash |-> FALSE, response |-> JsonThroughput(throughput_counter)]
  ELSE IF d.ctype = "runtime_information"
  THEN [crash |-> FALSE, response |-> Text("[NOT IMPLEMENTED YETWorkload]")]
  ELSE [crash |-> FALSE, response |-> Text("[Error]")]

Executes(d) == d.ctype \in {"query", "workload"}

InitLoopVars ==
  /\ agentPc = "recv"
  /\ data = NoRequest
  /\ remaining = <<>>
  /\ lastResponse = Text("")
  /\ received = 0
  /\ sent = 0
  /\ storage_data = "none"

\* start, lines 58-59: the loop reads the next request from its REP socket.
AgentRecv ==
  /\ agentPc = "recv"
  /\ received < MaxRequests
  /\ \E d \in Requests :
       /\ data' = d
       /\ remaining' = IF Executes(d) THEN d.content ELSE <<>>
  /\ agentPc' = "dispatch"
  /\ received' = received + 1
  /\ UNCHANGED <<lastResponse, sent, storage_data>>
  /\ UNCHANGED <<counterVars, gatewayVars, otherVars>>

\* start, lines 62 / 65: execute_raw_query / execute_raw_workload run the
\* next statement. A successful statement increments the shared counter; for
\* a statement the database rejects the load generator returns without
\* counting it.
AgentExecute ==
  /\ agentPc = "dispatch"
  /\ Executes(data)
  /\ remaining # <<>>
  /\ remaining' = Tail(remaining)
  /\ IF Head(remaining) = "ok"
     THEN /\ rCounter' = rCounter + 1
          /\ executed' = executed + 1
          /\ sinceTick' = sinceTick + 1
          /\ racing' = (racing \/ flushPc = "reset")
     ELSE UNCHANGED <<rCounter, executed, sinceTick, racing>>
  /\ UNCHANGED <<throughput_counter, flushPc, ticks, publishedSum, epochTrue,
                 captured, epochRaced>>
  /\ UNCHANGED <<agentPc, data, lastResponse, received, sent, storage_data>>
  /\ UNCHANGED <<gatewayVars, otherVars>>

\* start, lines 62 / 65: the database error of a rejected statement leaves
\* the load generator as an exception; the loop has no handler and ends.
AgentExecuteRaises ==
  /\ agentPc = "dispatch"
  /\ Executes(data)
  /\ remaining # <<>>
  /\ Head(remaining) = "bad"
  /\ agentPc' = "crashed"
  /\ UNCHANGED <<data, remaining, lastResponse, received, sent,
                 storage_data>>
  /\ UNCHANGED <<counterVars, gatewayVars, otherVars>>

\* Variant: answering 'throughput' also sets the live counter back to 0.
AgentRespondResetsCounter ==
  /\ agentPc = "dispatch"
  /\ remaining = <<>>
  /\ ~Dispatch(data).crash
  /\ lastResponse' = Dispatch(data).response
  /\ sent' = sent + 1
  /\ agentPc' = "recv"
  /\ rCounter' = IF data.ctype = "throughput" THEN 0 ELSE rCounter
  /\ UNCHANGED <<data, remaining, received, storage_data>>
  /\ UNCHANGED <<throughput_counter, flushPc, executed, ticks, publishedSum,
                 sinceTick, epochTrue, captured, racing, epochRaced>>
  /\ UNCHANGED <<gatewayVars, otherVars>>

\* start, lines 60-77: the branch computes the response and send_string
\* sends it; the loop is back at recv.
AgentRespond ==
  /\ agentPc = "dispatch"
  /\ remaining = <<>>
  /\ ~Dispatch(data).crash
  /\ lastResponse' = Dispatch(data).response
  /\ sent' = sent + 1
  /\ agentPc' = "recv"
  /\ UNCHANGED <<data, remaining, received, storage_data>>
  /\ UNCHANGED <<counterVars, gatewayVars, otherVars>>

\* start, lines 61-75: the branch raises; nothing is sent and the loop ends.
AgentCrash ==
  /\ agentPc = "dispatch"
  /\ remaining = <<>>
  /\ Dispatch(data).crash
  /\ agentPc' = "crashed"
  /\ UNCHANGED <<data, remaining, lastResponse, received, sent,
                 storage_data>>
  /\ UNCHANGED <<counterVars, gatewayVars, otherVars>>

\* The storage collector stores a snapshot under the redis key
\* "storage_data".
StoreSnapshot ==
  /\ storage_data = "none"
  /\ storage_data' = "S1"
  /\ UNCHANGED <<agentPc, data, remaining, lastResponse, received, sent>>
  /\ UNCHANGED <<counterVars, gatewayVars, otherVars>>

NextAgent ==
  \/ Increment
  \/ FlushRead
  \/ FlushReset
  \/ AgentRecv
  \/ AgentExecute
  \/ AgentExecuteRaises
  \/ AgentRespond
  \/ AgentCrash
  \/ StoreSnapshot

\* ================================================================= Gateway
\* Two handler threads: two external requests can be handled concurrently.
Threads == {"T1", "T2"}
Sockets == {"db_manager_socket", "generator_socket"}

NoStatus == -1   \* a response whose header carries no status field
EmptyBody == [error |-> "none", data |-> "none"]       \* {} ("none": no key)

\* hyrisecockpit.response.get_response: a fresh envelope with an empty body.
GetResponse(code) ==
  [header |-> [message |-> "OK", status |-> code], body |-> EmptyBody]

\* hyrisecockpit.response.get_error_response.
GetErrorResponse(code, error_message) ==
  [header |-> [message |-> "OK", status |-> code],
   body |-> [error |-> error_message, data |-> "none"]]

\* Variant: the remote error message is dropped for the generic one.
BodyGetErrorAlwaysDefault(body, default) == default

\* dict.get(key, default) on the "error" key of a response body.
BodyGetError(body, default) ==
  IF body.error = "none" THEN default ELSE body.error

\* response_schema: a response needs a header with a status, and a body.
ValidResponse(response) == response.header.status # NoStatus

\* The responses a peer service can give to a request.
ReplyShapes ==
  { [status |-> 200, body |-> EmptyBody],
    [status |-> 200, body |-> [error |-> "none", data |-> "D_remote"]],
    [status |-> 400, body |-> [error |-> "E_remote", data |-> "none"]],
    [status |-> 400, body |-> EmptyBody],
    [status |-> NoStatus, body |-> EmptyBody] }

NoResult == [kind |-> "none", response |-> GetResponse(0)]
Returned(response) == [kind |-> "response", response |-> response]
Raised(exception) == [kind |-> exception, response |-> GetResponse(0)]

\* Variant: StopWorkload visits the Fleet Manager first, as StartWorkload does.
WorkflowStepSameOrder(o, k) ==
  IF k = 1
  THEN [socket |-> "db_manager_socket",
        message |-> IF o = "post" THEN "start worker" ELSE "close worker"]
  ELSE [socket |-> "generator_socket",
        message |-> IF o = "post" THEN "start workload" ELSE "stop workload"]

\* Variant: the second request repeats the first one (a retry).
WorkflowStepRepeatsFirst(o, k) ==
  IF o = "post"
  THEN [socket |-> "db_manager_socket", message |-> "start worker"]
  ELSE [socket |-> "generator_socket", message |-> "stop workload"]

\* The (socket, command) of each step of Workload.post / Workload.delete.
WorkflowStep(o, k) ==
  IF o = "post"
  THEN IF k = 1
       THEN [socket |-> "db_manager_socket", message |-> "start worker"]
       ELSE [socket |-> "generator_socket", message |-> "start workload"]
  ELSE IF k = 1
       THEN [socket |-> "generator_socket", message |-> "stop workload"]
       ELSE [socket |-> "db_manager_socket", message |-> "close worker"]

\* Variant: step 1's status is not checked, the workflow always goes on.
WorkloadPostNoAbort(k, response) ==
  IF k = 1
  THEN [continue |-> TRUE, result |-> NoResult]
  ELSE IF response.header.status # 200
       THEN [continue |-> FALSE,
             result |-> Returned(GetErrorResponse(400,
               BodyGetError(response.body,
                            "Error during starting of the workload")))]
       ELSE [continue |-> FALSE, result |-> Returned(GetResponse(200))]

\* Variant: step 2's status is not checked, the workflow reports success.
WorkloadPostIgnoresStep2(k, response) ==
  IF k = 1
  THEN IF response.header.status # 200
       THEN [continue |-> FALSE,
             result |-> Returned(GetErrorResponse(400,
               BodyGetError(response.body, "Error during starting of worker")))]
       ELSE [continue |-> TRUE, result |-> NoResult]
  ELSE [continue |-> FALSE, result |-> Returned(GetResponse(200))]

\* Workload.post after the response of step k was returned by _send_message:
\* whether the workflow goes on to the next step, and what it returns if not.
WorkloadPost(k, response) ==
  IF k = 1
  THEN IF response.header.status # 200
       THEN [continue |-> FALSE,
             result |-> Returned(GetErrorResponse(400,
               BodyGetError(response.body, "Error during starting of worker")))]
       ELSE [continue |-> TRUE, result |-> NoResult]
  ELSE IF response.header.status # 200
       THEN [continue |-> FALSE,
             result |-> Returned(GetErrorResponse(400,
               BodyGetError(response.body,
                            "Error during starting of the workload")))]
       ELSE [continue |-> FALSE, result |-> Returned(GetResponse(200))]

\* Variant: step 1's status is not checked, the workflow always goes on.
WorkloadDeleteNoAbort(k, response) ==
  IF k = 1
  THEN [continue |-> TRUE, result |-> NoResult]
  ELSE IF response.header.status # 200
       THEN [continue |-> FALSE,
             result |-> Returned(GetErrorResponse(400,
               BodyGetError(response.body, "Error during closing of worker")))]
       ELSE [continue |-> FALSE,
             result |-> Returned([header |-> response.header,
                                  body |-> response.body])]

\* Workload.delete after the response of step k was returned.
WorkloadDelete(k, response) ==
  IF k = 1
  THEN IF response.header.status # 200
       THEN [continue |-> FALSE,
             result |-> Returned(GetErrorResponse(400,
               BodyGetError(response.body,
                            "Error during stopping of generator")))]
       ELSE [continue |-> TRUE, result |-> NoResult]
  ELSE IF response.header.status # 200
       THEN [continue |-> FALSE,
             result |-> Returned(GetErrorResponse(400,
               BodyGetError(response.body, "Error during closing of worker")))]
       ELSE [continue |-> FALSE,
             result |-> Returned([header |-> response.header,
                                  body |-> response.body])]

Workload(o, k, response) ==
  IF o = "post" THEN WorkloadPost(k, response) ELSE WorkloadDelete(k, response)

\* The handlers that return one field of the Fleet Manager's response:
\* ProcessTableStatus.get ("status") and Database.get ("get databases").
LookupOps == {"status", "get databases"}
WorkflowOps == {"post", "delete"}

\* A handler's return value that is a bare payload, not an envelope.
ReturnedPayload(value) ==
  [kind |-> "payload",
   response |-> [header |-> GetResponse(0).header,
                 body |-> [error |-> "none", data |-> value]]]

\* Variant: the body is validated against the command's schema before the
\* field is read.
LookupValidated(o, response) ==
  IF response.body.data = "none"
  THEN [continue |-> FALSE, result |-> Raised("ValidationError")]
  ELSE [continue |-> FALSE, result |-> ReturnedPayload(response.body.data)]

\* ProcessTableStatus.get, line 877-879, and Database.get, lines 889-891:
\* response["body"]["status"] / response["body"]["databases"] is read from
\* the response _send_message returned (data: the command's field; "none":
\* the body has no such key, the subscript raises KeyError).
Lookup(o, response) ==
  IF response.body.data = "none"
  THEN [continue |-> FALSE, result |-> Raised("KeyError")]
  ELSE [continue |-> FALSE, result |-> ReturnedPayload(response.body.data)]

\* The metrics handlers, which ask the Fleet Manager for the active
\* databases through _active_databases before they query the store.
MetricsOps == {"metrics"}

\* _active_databases, lines 554-556, after _send_message returned the
\* response: the body is validated against get_databases_response_schema
\* (data: the 'databases' field; "none": the body has no such field), then
\* the ids are collected. The ValidationError reaches the metrics handler.
ActiveDatabasesBody(o, response) ==
  IF response.body.data = "none"
  THEN [continue |-> FALSE, result |-> Raised("ValidationError")]
  ELSE [continue |-> FALSE, result |-> ReturnedPayload(response.body.data)]

\* The request of step k of handler o.
StepOf(o, k) ==
  IF o \in LookupOps
  THEN [socket |-> "db_manager_socket", message |-> o]
  ELSE IF o \in MetricsOps
  THEN [socket |-> "db_manager_socket", message |-> "get databases"]
  ELSE WorkflowStep(o, k)

\* What handler o does with the response of its step k.
Handle(o, k, response) ==
  IF o \in LookupOps THEN Lookup(o, response)
  ELSE IF o \in MetricsOps THEN ActiveDatabasesBody(o, response)
  ELSE Workload(o, k, response)

SocketOf(t) == StepOf(op[t], step[t]).socket

\* Another thread is inside a call on the socket while t uses it: zmq sockets
\* are not thread safe and the module-level sockets are shared without a lock.
ConcurrentUse(t, s) ==
  \E u \in Threads : u # t /\ pc[u] = "recv" /\ SocketOf(u) = s

InFlight(s) == Len(reqs[s]) + Len(resps[s])

InitGatewayVars ==
  /\ pc = [t \in Threads |-> "idle"]
  /\ op = [t \in Threads |-> "none"]
  /\ step = [t \in Threads |-> 0]
  /\ invocations = 0
  /\ result = [t \in Threads |-> NoResult]
  /\ sentLog = [t \in Threads |-> <<>>]
  /\ readLog = [t \in Threads |-> <<>>]
  /\ receiving = [s \in Sockets |-> FALSE]
  /\ reqs = [s \in Sockets |-> <<>>]
  /\ resps = [s \in Sockets |-> <<>>]
  /\ peerUp = [s \in Sockets |-> TRUE]
  /\ poisoned = [s \in Sockets |-> FALSE]
  /\ issuedOnPoisoned = FALSE
  /\ afterViolation = [s \in Sockets |-> FALSE]

\* An external request for POST or DELETE /control/workload reaches thread t.
Start(t) ==
  /\ pc[t] = "idle"
  /\ invocations < MaxInvocations
  /\ \E o \in {"post", "delete"} : op' = [op EXCEPT ![t] = o]
  /\ step' = [step EXCEPT ![t] = 1]
  /\ pc' = [pc EXCEPT ![t] = "send"]
  /\ invocations' = invocations + 1
  /\ UNCHANGED <<result, sentLog, readLog, receiving, reqs, resps, peerUp,
                 poisoned, issuedOnPoisoned, afterViolation>>
  /\ UNCHANGED <<agentVars, otherVars>>

\* _send_message, line 544: socket.send_json(message) puts the request on
\* the wire. A REQ socket accepts it when no reply is outstanding; when one is
\* and another thread is inside the socket, the unsynchronised send can pass.
SendOk(t) ==
  /\ pc[t] = "send"
  /\ LET w == StepOf(op[t], step[t])
         s == w.socket
         request == [from |-> t, message |-> w.message]
     IN /\ ~receiving[s] \/ ConcurrentUse(t, s)
        /\ reqs' = [reqs EXCEPT ![s] = Append(@, request)]
        /\ receiving' = [receiving EXCEPT ![s] = TRUE]
        /\ sentLog' = [sentLog EXCEPT ![t] = Append(@, w)]
        /\ issuedOnPoisoned' = (issuedOnPoisoned \/ poisoned[s])
        /\ afterViolation' = [afterViolation EXCEPT ![s] = FALSE]
  /\ pc' = [pc EXCEPT ![t] = "recv"]
  /\ UNCHANGED <<op, step, invocations, result, readLog, resps,
                 peerUp, poisoned>>
  /\ UNCHANGED <<agentVars, otherVars>>

\* _send_message, line 544: send_json on a REQ socket whose reply is still
\* outstanding raises ZMQError (EFSM); the handler ends with the exception.
SendEFSM(t) ==
  /\ pc[t] = "send"
  /\ receiving[SocketOf(t)]
  /\ issuedOnPoisoned' = (issuedOnPoisoned \/ poisoned[SocketOf(t)])
  /\ afterViolation' = [afterViolation EXCEPT ![SocketOf(t)] = FALSE]
  /\ result' = [result EXCEPT ![t] = Raised("ZMQError")]
  /\ pc' = [pc EXCEPT ![t] = "done"]
  /\ UNCHANGED <<op, step, invocations, sentLog, readLog, receiving,
                 reqs, resps, peerUp, poisoned>>
  /\ UNCHANGED <<agentVars, otherVars>>

\* Variant: the response is not validated against response_schema.
RecvNoValidate(t) ==
  /\ pc[t] = "recv"
  /\ LET s == SocketOf(t) IN
       /\ resps[s] # <<>>
       /\ LET response == Head(resps[s])
              outcome == Handle(op[t], step[t], response)
          IN /\ resps' = [resps EXCEPT ![s] = Tail(@)]
             /\ receiving' = [receiving EXCEPT ![s] = FALSE]
             /\ readLog' = [readLog EXCEPT ![t] = Append(@, response)]
             /\ IF outcome.continue
                THEN /\ result' = result
                     /\ pc' = [pc EXCEPT ![t] = "send"]
                     /\ step' = [step EXCEPT ![t] = @ + 1]
                ELSE /\ result' = [result EXCEPT ![t] = outcome.result]
                     /\ pc' = [pc EXCEPT ![t] = "done"]
                     /\ step' = step
  /\ UNCHANGED <<op, invocations, sentLog, reqs, peerUp, poisoned,
                 issuedOnPoisoned, afterViolation>>
  /\ UNCHANGED <<agentVars, otherVars>>

\* _send_message, lines 545-547, and the rest of the handler up to its next
\* send or its return: recv_json takes the next response that arrived on the
\* socket, validate checks it, the workflow inspects header.status.
Recv(t) ==
  /\ pc[t] = "recv"
  /\ LET s == SocketOf(t) IN
       /\ resps[s] # <<>>
       /\ LET response == Head(resps[s])
              outcome == Handle(op[t], step[t], response)
          IN /\ resps' = [resps EXCEPT ![s] = Tail(@)]
             /\ receiving' = [receiving EXCEPT ![s] = FALSE]
             /\ readLog' = [readLog EXCEPT ![t] = Append(@, response)]
             /\ afterViolation' =
                  [afterViolation EXCEPT ![s] =
                     \/ @
                     \/ ~ValidResponse(response)
                     \/ outcome.result.kind = "ValidationError"]
             /\ IF ~ValidResponse(response)
                THEN /\ result' = [result EXCEPT ![t] = Raised("ValidationError")]
                     /\ pc' = [pc EXCEPT ![t] = "done"]
                     /\ step' = step
                ELSE IF outcome.continue
                THEN /\ result' = result
                     /\ pc' = [pc EXCEPT ![t] = "send"]
                     /\ step' = [step EXCEPT ![t] = @ + 1]
                ELSE /\ result' = [result EXCEPT ![t] = outcome.result]
                     /\ pc' = [pc EXCEPT ![t] = "done"]
                     /\ step' = step
  /\ UNCHANGED <<op, invocations, sentLog, reqs, peerUp, poisoned,
                 issuedOnPoisoned>>
  /\ UNCHANGED <<agentVars, otherVars>>

\* _send_message, line 545: recv_json on a REQ socket that is not waiting for
\* a reply (another thread's recv took the socket back to the send state)
\* raises ZMQError (EFSM).
RecvEFSM(t) ==
  /\ pc[t] = "recv"
  /\ ~receiving[SocketOf(t)]
  /\ result' = [result EXCEPT ![t] = Raised("ZMQError")]
  /\ pc' = [pc EXCEPT ![t] = "done"]
  /\ UNCHANGED <<op, step, invocations, sentLog, readLog, receiving,
                 reqs, resps, peerUp, poisoned, issuedOnPoisoned,
                 afterViolation>>
  /\ UNCHANGED <<agentVars, otherVars>>

\* _send_message, line 545: recv_json fails in transport (ZMQError) while the
\* peer is unreachable. The exception leaves the handler; the module-level
\* socket stays as it is and is used by the next request.
RecvFails(t) ==
  /\ pc[t] = "recv"
  /\ ~peerUp[SocketOf(t)]
  /\ resps[SocketOf(t)] = <<>>
  /\ poisoned' = [poisoned EXCEPT ![SocketOf(t)] = TRUE]
  /\ result' = [result EXCEPT ![t] = Raised("ZMQError")]
  /\ pc' = [pc EXCEPT ![t] = "done"]
  /\ UNCHANGED <<op, step, invocations, sentLog, readLog, receiving,
                 reqs, resps, peerUp, issuedOnPoisoned,
                 afterViolation>>
  /\ UNCHANGED <<agentVars, otherVars>>

\* An external request for GET /monitor/status or GET /control/database
\* reaches thread t.
StartLookup(t) ==
  /\ pc[t] = "idle"
  /\ invocations < MaxInvocations
  /\ \E o \in LookupOps : op' = [op EXCEPT ![t] = o]
  /\ step' = [step EXCEPT ![t] = 1]
  /\ pc' = [pc EXCEPT ![t] = "send"]
  /\ invocations' = invocations + 1
  /\ UNCHANGED <<result, sentLog, readLog, receiving, reqs, resps, peerUp,
                 poisoned, issuedOnPoisoned, afterViolation>>
  /\ UNCHANGED <<agentVars, otherVars>>

\* An external request for one of the metrics endpoints reaches thread t: the
\* handler calls _active_databases (lines 572, 604, 637, 671, 703).
StartMetrics(t) ==
  /\ pc[t] = "idle"
  /\ invocations < MaxMetricsRequests
  /\ \E o \in MetricsOps : op' = [op EXCEPT ![t] = o]
  /\ step' = [step EXCEPT ![t] = 1]
  /\ pc' = [pc EXCEPT ![t] = "send"]
  /\ invocations' = invocations + 1
  /\ UNCHANGED <<result, sentLog, readLog, receiving, reqs, resps, peerUp,
                 poisoned, issuedOnPoisoned, afterViolation>>
  /\ UNCHANGED <<agentVars, otherVars>>

\* The handler's return value has gone back to the client; the thread is free
\* for the next external request.
Return(t) ==
  /\ pc[t] = "done"
  /\ pc' = [pc EXCEPT ![t] = "idle"]
  /\ op' = [op EXCEPT ![t] = "none"]
  /\ step' = [step EXCEPT ![t] = 0]
  /\ result' = [result EXCEPT ![t] = NoResult]
  /\ sentLog' = [sentLog EXCEPT ![t] = <<>>]
  /\ readLog' = [readLog EXCEPT ![t] = <<>>]
  /\ UNCHANGED <<invocations, receiving, reqs, resps, peerUp, poisoned,
                 issuedOnPoisoned, afterViolation>>
  /\ UNCHANGED <<agentVars, otherVars>>

\* The peer service (REP socket) answers the oldest request on the wire.
PeerReply(s) ==
  /\ peerUp[s]
  /\ reqs[s] # <<>>
  /\ \E shape \in ReplyShapes :
       resps' = [resps EXCEPT ![s] = Append(@,
                   [to |-> Head(reqs[s]).from,
                    header |-> [message |-> Head(reqs[s]).message,
                                status |-> shape.status],
                    body |-> shape.body])]
  /\ reqs' = [reqs EXCEPT ![s] = Tail(@)]
  /\ UNCHANGED <<pc, op, step, invocations, result, sentLog, readLog,
                 receiving, peerUp, poisoned, issuedOnPoisoned,
                 afterViolation>>
  /\ UNCHANGED <<agentVars, otherVars>>

\* The peer service stops (crash, network partition) and replies no more.
PeerDown(s) ==
  /\ peerUp[s]
  /\ peerUp' = [peerUp EXCEPT ![s] = FALSE]
  /\ UNCHANGED <<pc, op, step, invocations, result, sentLog, readLog,
                 receiving, reqs, resps, poisoned, issuedOnPoisoned,
                 afterViolation>>
  /\ UNCHANGED <<agentVars, otherVars>>

ThreadStep(t) ==
  \/ Start(t)
  \/ SendOk(t)
  \/ SendEFSM(t)
  \/ Recv(t)
  \/ RecvEFSM(t)
  \/ Return(t)

NextGateway ==
  \/ \E t \in Threads : ThreadStep(t)
  \/ \E t \in Threads : RecvFails(t)
  \/ \E s \in Sockets : PeerReply(s)
  \/ \E s \in Sockets : PeerDown(s)

\* The lookup handlers on the Fleet Manager socket.
NextLookup ==
  \/ \E t \in Threads : StartLookup(t)
  \/ \E t \in Threads : SendOk(t)
  \/ \E t \in Threads : SendEFSM(t)
  \/ \E t \in Threads : Recv(t)
  \/ \E t \in Threads : RecvEFSM(t)
  \/ \E t \in Threads : Return(t)
  \/ \E t \in Threads : RecvFails(t)
  \/ PeerReply("db_manager_socket")
  \/ PeerDown("db_manager_socket")

\* The membership lookups of the metrics handlers on the Fleet Manager socket.
NextChannel ==
  \/ \E t \in Threads : StartMetrics(t)
  \/ \E t \in Threads : SendOk(t)
  \/ \E t \in Threads : SendEFSM(t)
  \/ \E t \in Threads : Recv(t)
  \/ \E t \in Threads : RecvEFSM(t)
  \/ \E t \in Threads : Return(t)
  \/ \E t \in Threads : RecvFails(t)
  \/ PeerReply("db_manager_socket")
  \/ PeerDown("db_manager_socket")

\* ========================================================= Metrics Aggregator
\* The five metrics handlers of the gateway (Throughput, Latency,
\* DetailedThroughput, DetailedLatency, DetailedQueryInformation) and the
\* time-series store they query. One metrics request is served at a time
\* here; the shared control channel under concurrent requests is SpecGateway.
Variants == {"throughput", "latency", "detailed_throughput",
             "detailed_latency", "detailed_query_information"}
FleetWide == {"throughput", "latency"}

Epoch == 1000000000     \* ns; the CounterFlush interval, seconds=1
StartLag == 2000000000  \* startts = currentts - 2_000_000_000
EndLag == 1000000000    \* endts = currentts - 1_000_000_000
ClockStep == EndLag \div 4   \* resolution of the modelled clock: 250 ms

\* Throughput.get, line 567 (601, 634, 667, 700 in the other variants).
StartTs(ts) == ts - StartLag

\* Variant: the window ends less than one epoch before the call.
EndTsShortLag(ts) == ts - EndLag + ClockStep

\* Throughput.get, line 568 (602, 635, 668, 701 in the other variants).
EndTs(ts) == ts - EndLag

\* ------------------------------------------------------ the time-series store
Databases == {"db1", "db2"}
TagPairs == { [benchmark |-> "tpch", query_no |-> "1"],
              [benchmark |-> "tpch", query_no |-> "2"] }
SampleTimes == {0 - EndLag, 0 - 2 * ClockStep, 0}
LatencyAt(time) == IF time = 0 THEN 40 ELSE IF time = 0 - EndLag THEN 10 ELSE 20

\* The points of measurement successful_queries the workers can write: one
\* point per (database, tag set, timestamp), with its latency field. The
\* worker of db1 runs both queries, the worker of db2 one query once.
Samples ==
  { [db |-> "db1", time |-> t, benchmark |-> g.benchmark,
     query_no |-> g.query_no, latency |-> LatencyAt(t)]
      : t \in SampleTimes, g \in TagPairs }
  \cup
  { [db |-> "db2", time |-> 0 - 2 * ClockStep, benchmark |-> "tpch",
     query_no |-> "1", latency |-> LatencyAt(0 - 2 * ClockStep)] }

\* Variant: the end of the window is exclusive as well.
InWindowOpen(time, s, e) == time > s /\ time < e

\* The WHERE clause of the five queries: time > $startts AND time <= $endts.
InWindow(time, s, e) == time > s /\ time <= e

\* The points of database d the WHERE clause selects.
Rows(d, s, e) == {x \in store : x.db = d /\ InWindow(x.time, s, e)}

RECURSIVE SetToSeq(_)
SetToSeq(S) ==
  IF S = {} THEN <<>>
  ELSE LET x == CHOOSE y \in S : TRUE IN <<x>> \o SetToSeq(S \ {x})

RECURSIVE SumLatency(_)
SumLatency(rows) ==
  IF rows = {} THEN 0
  ELSE LET x == CHOOSE y \in rows : TRUE
       IN x.latency + SumLatency(rows \ {x})

\* A number of the response: num / den (MEAN gives a float).
Number(k) == [num |-> k, den |-> 1]
Mean(rows) == [num |-> SumLatency(rows), den |-> Cardinality(rows)]

\* GROUP BY benchmark, query_no: the rows of one tag pair, and the series of
\* the result: one per tag pair that has rows (ResultSet.keys()).
Group(rows, tags) ==
  {x \in rows : x.benchmark = tags.benchmark /\ x.query_no = tags.query_no}
Keys(rows) ==
  SetToSeq({[benchmark |-> x.benchmark, query_no |-> x.query_no] : x \in rows})

\* The points of an ungrouped aggregate: none when no row matched.
CountPoints(rows) ==
  IF rows = {} THEN <<>> ELSE <<[count |-> Cardinality(rows)]>>
MeanPoints(rows) ==
  IF rows = {} THEN <<>> ELSE <<[latency |-> Mean(rows)]>>

\* ------------------------------------------------------ the membership lookup
\* Id lists the Fleet Manager can report (ids are unique in the registry).
IdLists == {<<>>, <<"db1">>, <<"db2", "db1">>}

\* The responses to 'get databases' that can reach the gateway: the list of
\* databases, a response without the 'databases' field, and a response
\* without a status.
MembershipResponses ==
  { [header |-> [message |-> "OK", status |-> 200],
     body |-> [hasDatabases |-> TRUE,
               databases |-> [i \in 1..Len(ids) |-> [id |-> ids[i]]]]]
      : ids \in IdLists }
  \cup
  { [header |-> [message |-> "OK", status |-> c],
     body |-> [hasDatabases |-> FALSE, databases |-> <<>>]]
      : c \in {200, 400, NoStatus} }

\* get_databases_response_schema: the body needs the field 'databases'.
ValidGetDatabases(body) == body.hasDatabases

\* Variant: a response that fails validation counts as "no databases".
ActiveDatabasesLenient(response) ==
  IF ValidResponse(response) /\ ValidGetDatabases(response.body)
  THEN [raised |-> "none",
        ids |-> [i \in 1..Len(response.body.databases) |->
                   response.body.databases[i].id]]
  ELSE [raised |-> "none", ids |-> <<>>]

\* _active_databases, lines 550-556, on the response recv_json returned:
\* _send_message validates it against response_schema (line 546), line 555
\* validates the body, line 556 collects the ids.
ActiveDatabases(response) ==
  IF ~ValidResponse(response)
  THEN [raised |-> "ValidationError", ids |-> <<>>]
  ELSE IF ~ValidGetDatabases(response.body)
  THEN [raised |-> "ValidationError", ids |-> <<>>]
  ELSE [raised |-> "none",
        ids |-> [i \in 1..Len(response.body.databases) |->
                   response.body.databases[i].id]]

\* ------------------------------------------------------- the handlers' loops
\* The aggregate and grouping of each variant's query.
SelectOf(v) ==
  IF v \in {"throughput", "detailed_throughput"} THEN "COUNT"
  ELSE IF v \in {"latency", "detailed_latency"} THEN "MEAN"
  ELSE "COUNT,MEAN"
GroupedOf(v) == v \notin FleetWide

\* Variant: the combined variant asks for count and mean in two queries.
IssuedQueriesSplit(v, d, s, e, rows) ==
  IF v = "detailed_query_information"
  THEN << [database |-> d, select |-> "COUNT", grouped |-> TRUE,
           startts |-> s, endts |-> e, rows |-> rows],
          [database |-> d, select |-> "MEAN", grouped |-> TRUE,
           startts |-> s, endts |-> e, rows |-> rows] >>
  ELSE << [database |-> d, select |-> SelectOf(v), grouped |-> GroupedOf(v),
           startts |-> s, endts |-> e, rows |-> rows] >>

\* storage_connection.query(...) of one loop iteration (lines 576-580,
\* 609-613, 642-646, 675-679, 708-712): what the loop asks the store.
IssuedQueries(v, d, s, e, rows) ==
  << [database |-> d, select |-> SelectOf(v), grouped |-> GroupedOf(v),
      startts |-> s, endts |-> e, rows |-> rows] >>

Put(dict, k, value) ==
  [x \in DOMAIN dict \cup {k} |-> IF x = k THEN value ELSE dict[x]]

\* The literal 0, as a number of the field's type.
Zero(field) == IF field = "count" THEN 0 ELSE Number(0)

\* Variant: a database without a point gets no key.
FleetPutSkipsEmpty(dict, d, points, field) ==
  IF Len(points) > 0 THEN Put(dict, d, points[1][field]) ELSE dict

\* Throughput.get, lines 581-587, and Latency.get, lines 680-686.
FleetPut(dict, d, points, field) ==
  IF Len(points) > 0
  THEN Put(dict, d, points[1][field])
  ELSE Put(dict, d, Zero(field))

NoCount == 0 - 1          \* the entry has no "throughput" key
NoMean == Number(0 - 1)   \* the entry has no "latency" key

DetailedEntry(v, tags, group) ==
  [benchmark |-> tags.benchmark,
   query_number |-> tags.query_no,
   throughput |-> IF v = "detailed_latency" THEN NoCount
                  ELSE Cardinality(group),
   latency |-> IF v = "detailed_throughput" THEN NoMean ELSE Mean(group)]

\* Variant: every known tag pair gets an entry, with 0 where it has no row.
DetailedListZeroFilled(v, rows) ==
  LET keys == SetToSeq(TagPairs)
  IN  [i \in 1..Len(keys) |-> DetailedEntry(v, keys[i], Group(rows, keys[i]))]

\* The list comprehension over result.keys() of lines 614-621, 647-654 and
\* 713-721.
DetailedList(v, rows) ==
  LET keys == Keys(rows)
  IN  [i \in 1..Len(keys) |-> DetailedEntry(v, keys[i], Group(rows, keys[i]))]

\* One iteration of the handler's loop over active_databases.
LoopBody(v, d, rows) ==
  IF v = "throughput" THEN FleetPut(acc, d, CountPoints(rows), "count")
  ELSE IF v = "latency" THEN FleetPut(acc, d, MeanPoints(rows), "latency")
  ELSE Append(acc, [id |-> d, entries |-> DetailedList(v, rows)])

EmptyDict == [x \in {} |-> 0]
NoAggResult == [kind |-> "none", status |-> 0, value |-> <<>>]

\* The handler's return value: get_response(200) with the dict in its body
\* (lines 588-590, 687-689), or the list (lines 623, 656, 724).
AggReturned(v, value) ==
  IF v \in FleetWide
  THEN [kind |-> "response", status |-> GetResponse(200).header.status,
        value |-> value]
  ELSE [kind |-> "list", status |-> 0, value |-> value]

InitAggVars ==
  /\ now = 0
  /\ store = {}
  /\ aggPc = "idle"
  /\ variant = "none"
  /\ calls = 0
  /\ currentts = 0
  /\ startts = 0
  /\ endts = 0
  /\ active_databases = <<>>
  /\ qi = 0
  /\ acc = <<>>
  /\ aggResult = NoAggResult
  /\ lookup = "none"
  /\ queries = <<>>
  /\ windows = <<>>

\* Time passes.
ClockTick ==
  /\ now < MaxClockTicks * ClockStep
  /\ now' = now + ClockStep
  /\ UNCHANGED <<store, aggPc, variant, calls, currentts, startts, endts,
                 active_databases, qi, acc, aggResult, lookup, queries,
                 windows>>
  /\ UNCHANGED <<agentVars, gatewayVars, regVars, drvVars, ctorVars>>

\* A worker records the latency of a query it executed.
StoreWrite(x) ==
  /\ Cardinality(store) < MaxSamples
  /\ x \notin store
  /\ store' = store \cup {x}
  /\ UNCHANGED <<now, aggPc, variant, calls, currentts, startts, endts,
                 active_databases, qi, acc, aggResult, lookup, queries,
                 windows>>
  /\ UNCHANGED <<agentVars, gatewayVars, regVars, drvVars, ctorVars>>

\* A metrics request arrives: the handler reads the clock and computes its
\* window (lines 566-570 and the same lines of the other four handlers).
AggStart(v) ==
  /\ aggPc \in {"idle", "done"}
  /\ calls < MaxCalls
  /\ calls' = calls + 1
  /\ variant' = v
  /\ currentts' = now
  /\ startts' = StartTs(now)
  /\ endts' = EndTs(now)
  /\ active_databases' = <<>>
  /\ qi' = 0
  /\ acc' = IF v \in FleetWide THEN EmptyDict ELSE <<>>
  /\ aggResult' = NoAggResult
  /\ lookup' = "none"
  /\ queries' = <<>>
  /\ windows' = Append(windows, [now |-> now, startts |-> StartTs(now),
                                 endts |-> EndTs(now)])
  /\ aggPc' = "lookup"
  /\ UNCHANGED <<now, store>>
  /\ UNCHANGED <<agentVars, gatewayVars, regVars, drvVars, ctorVars>>

\* try: active_databases = _active_databases() except ValidationError:
\* return 500 (lines 571-574, 603-606, 636-639, 670-673, 702-705).
AggLookup ==
  /\ aggPc = "lookup"
  /\ \E response \in MembershipResponses :
       LET a == ActiveDatabases(response)
       IN  /\ lookup' = IF /\ ValidResponse(response)
                            /\ ValidGetDatabases(response.body)
                         THEN "valid" ELSE "invalid"
           /\ IF a.raised = "ValidationError"
              THEN /\ aggResult' = [kind |-> "int", status |-> 500,
                                    value |-> <<>>]
                   /\ aggPc' = "done"
                   /\ UNCHANGED <<active_databases, qi>>
              ELSE /\ active_databases' = a.ids
                   /\ qi' = 1
                   /\ aggPc' = "query"
                   /\ UNCHANGED aggResult
  /\ UNCHANGED <<now, store, variant, calls, currentts, startts, endts, acc,
                 queries, windows>>
  /\ UNCHANGED <<agentVars, gatewayVars, regVars, drvVars, ctorVars>>

\* The control channel raises inside _send_message (zmq.ZMQError): the
\* handlers catch ValidationError only, the error leaves the handler.
AggLookupRaises ==
  /\ aggPc = "lookup"
  /\ lookup' = "ZMQError"
  /\ aggResult' = [kind |-> "ZMQError", status |-> 0, value |-> <<>>]
  /\ aggPc' = "done"
  /\ UNCHANGED <<now, store, variant, calls, currentts, startts, endts,
                 active_databases, qi, acc, queries, windows>>
  /\ UNCHANGED <<agentVars, gatewayVars, regVars, drvVars, ctorVars>>

\* Variant: every iteration reads the clock again and queries the window
\* that lies behind that reading.
AggQueryRecomputes ==
  /\ aggPc = "query"
  /\ qi <= Len(active_databases)
  /\ LET d == active_databases[qi]
         rows == Rows(d, StartTs(now), EndTs(now))
     IN  /\ queries' = queries \o IssuedQueries(variant, d, StartTs(now),
                                                EndTs(now), rows)
         /\ acc' = LoopBody(variant, d, rows)
  /\ qi' = qi + 1
  /\ UNCHANGED <<now, store, aggPc, variant, calls, currentts, startts,
                 endts, active_databases, aggResult, lookup, windows>>
  /\ UNCHANGED <<agentVars, gatewayVars, regVars, drvVars, ctorVars>>

\* One iteration of `for database in active_databases`: one query to the
\* store, and the database's entry in the result.
AggQuery ==
  /\ aggPc = "query"
  /\ qi <= Len(active_databases)
  /\ LET d == active_databases[qi]
         rows == Rows(d, startts, endts)
     IN  /\ queries' = queries \o IssuedQueries(variant, d, startts, endts,
                                                rows)
         /\ acc' = LoopBody(variant, d, rows)
  /\ qi' = qi + 1
  /\ UNCHANGED <<now, store, aggPc, variant, calls, currentts, startts,
                 endts, active_databases, aggResult, lookup, windows>>
  /\ UNCHANGED <<agentVars, gatewayVars, regVars, drvVars, ctorVars>>

\* The loop is over: the handler returns.
AggReturn ==
  /\ aggPc = "query"
  /\ qi > Len(active_databases)
  /\ aggResult' = AggReturned(variant, acc)
  /\ aggPc' = "done"
  /\ UNCHANGED <<now, store, variant, calls, currentts, startts, endts,
                 active_databases, qi, acc, lookup, queries, windows>>
  /\ UNCHANGED <<agentVars, gatewayVars, regVars, drvVars, ctorVars>>

NextAggregator ==
  \/ ClockTick
  \/ \E x \in Samples : StoreWrite(x)
  \/ \E v \in Variants : AggStart(v)
  \/ AggLookup
  \/ AggLookupRaises
  \/ AggQuery
  \/ AggReturn

\* ========================================================= Instance registry
\* HyriseInterface.databases and the two methods that change it.
InstanceIds == {"hyrise1", "hyrise2", "hyrise3"}
Hosts == {"hostA", "hostB"}

\* The dict add_hyrise_instance stores for an id (name has its default).
Entry(host) ==
  [name |-> "", host |-> host, port |-> "5432", user |-> "user",
   password |-> "password"]
NoEntry == Entry("none")

ReturnId(id) == [kind |-> "id", id |-> id]
ReturnFalse == [kind |-> "False", id |-> "none"]
NoCall == [op |-> "none", id |-> "none", entry |-> NoEntry,
           ret |-> ReturnFalse, before |-> EmptyDict,
           prev |-> <<"none", "none">>]

\* Variant: the entry of a registered id is replaced.
AddHyriseInstanceOverwrites(dbs, id, entry) ==
  [databases |-> Put(dbs, id, entry), ret |-> ReturnId(id)]

\* add_hyrise_instance, lines 79-90.
AddHyriseInstance(dbs, id, entry) ==
  IF id \notin DOMAIN dbs
  THEN [databases |-> Put(dbs, id, entry), ret |-> ReturnId(id)]
  ELSE [databases |-> dbs, ret |-> ReturnFalse]

\* Variant: the id is returned but its entry stays in the dict.
PopHyriseInstanceKeeps(dbs, id) ==
  IF id \in DOMAIN dbs
  THEN [databases |-> dbs, ret |-> ReturnId(id)]
  ELSE [databases |-> dbs, ret |-> ReturnFalse]

\* pop_hyrise_instance, lines 92-97.
PopHyriseInstance(dbs, id) ==
  IF id \in DOMAIN dbs
  THEN [databases |-> [x \in DOMAIN dbs \ {id} |-> dbs[x]],
        ret |-> ReturnId(id)]
  ELSE [databases |-> dbs, ret |-> ReturnFalse]

\* __init__, line 36: self.databases = dict().
InitRegVars ==
  /\ databases = EmptyDict
  /\ regCall = NoCall

Add(id, host) ==
  LET r == AddHyriseInstance(databases, id, Entry(host))
  IN  /\ databases' = r.databases
      /\ regCall' = [op |-> "add", id |-> id, entry |-> Entry(host),
                     ret |-> r.ret, before |-> databases,
                     prev |-> <<regCall.op, regCall.id>>]
      /\ UNCHANGED <<agentVars, gatewayVars, aggVars, drvVars, ctorVars>>

Pop(id) ==
  LET r == PopHyriseInstance(databases, id)
  IN  /\ databases' = r.databases
      /\ regCall' = [op |-> "pop", id |-> id, entry |-> NoEntry,
                     ret |-> r.ret, before |-> databases,
                     prev |-> <<regCall.op, regCall.id>>]
      /\ UNCHANGED <<agentVars, gatewayVars, aggVars, drvVars, ctorVars>>

NextRegistry ==
  \/ \E id \in InstanceIds, host \in Hosts : Add(id, host)
  \/ \E id \in InstanceIds : Pop(id)

\* ============================================================ Database driver
\* Driver.validate_connection and the connection pool of a Driver, used by
\* the registration of a database: the credentials are validated first and
\* the Driver is built when validation passed.
Ports == {<<"5", "4", "3", "2">>, <<"8", "0">>, <<"x">>}

AccessData ==
  [user : {"user"}, password : {"right", "wrong"}, host : Hosts,
   port : Ports, dbname : {"postgres"}]
NoAccessData ==
  [user |-> "none", password |-> "none", host |-> "none", port |-> <<>>,
   dbname |-> "none"]

\* int(s) accepts s: a non-empty string of decimal digits.
IsDecimal(s) ==
  /\ Len(s) > 0
  /\ \A i \in DOMAIN s : \E k \in DOMAIN Digits : Digits[k] = s[i]

\* The database server listens on port 5432 and knows one password.
ServerAccepts(ad) ==
  /\ IsDecimal(ad.port)
  /\ StrToInt(ad.port) = 5432
  /\ ad.password = "right"

\* Variant: a refused connection is not reported.
ValidateConnectionSwallows(ad, accepted) ==
  IF ~IsDecimal(ad.port)
  THEN [raised |-> "ValueError", attempts |-> 0]
  ELSE [raised |-> "none", attempts |-> 1]

\* Driver.validate_connection, lines 15-28: int(access_data["port"]), one
\* connect(...); connection.close() when it was accepted, and
\* ConnectionNotValidException for psycopg2's Error.
ValidateConnection(ad, accepted) ==
  IF ~IsDecimal(ad.port)
  THEN [raised |-> "ValueError", attempts |-> 0]
  ELSE IF accepted
  THEN [raised |-> "none", attempts |-> 1]
  ELSE [raised |-> "ConnectionNotValidException", attempts |-> 1]

InitDrvVars ==
  /\ drvPc = "idle"
  /\ drvCurrent = [id |-> "none", access_data |-> NoAccessData]
  /\ attempts = 0
  /\ connected = "none"
  /\ drvRaised = "none"
  /\ pools = EmptyDict
  /\ validated = {}

\* The registration of database id with credentials ad begins.
DrvRegister(id, ad) ==
  /\ drvPc = "idle"
  /\ id \notin DOMAIN pools
  /\ drvCurrent' = [id |-> id, access_data |-> ad]
  /\ drvPc' = "validate"
  /\ attempts' = 0
  /\ connected' = "none"
  /\ drvRaised' = "none"
  /\ UNCHANGED <<pools, validated>>
  /\ UNCHANGED <<agentVars, gatewayVars, aggVars, regVars, ctorVars>>

\* Driver.validate_connection(access_data) runs; the server can also be
\* unreachable for credentials it would accept.
DrvValidate ==
  /\ drvPc = "validate"
  /\ \E accepted \in IF ServerAccepts(drvCurrent.access_data)
                     THEN BOOLEAN ELSE {FALSE} :
       LET r == ValidateConnection(drvCurrent.access_data, accepted)
       IN  /\ attempts' = r.attempts
           /\ drvRaised' = r.raised
           /\ connected' = IF ~IsDecimal(drvCurrent.access_data.port)
                           THEN "none"
                           ELSE IF accepted THEN "accepted" ELSE "refused"
           /\ validated' = IF accepted
                           THEN validated \cup
                                  {<<drvCurrent.id, drvCurrent.access_data>>}
                           ELSE validated
           /\ drvPc' = IF r.raised = "none" THEN "create" ELSE "idle"
  /\ UNCHANGED <<drvCurrent, pools>>
  /\ UNCHANGED <<agentVars, gatewayVars, aggVars, regVars, ctorVars>>

\* Driver.__init__, line 13, and _create_connection_pool, lines 30-41: the
\* pool is created (with no open connection: minconn is 0).
DrvCreate ==
  /\ drvPc = "create"
  /\ pools' = Put(pools, drvCurrent.id, drvCurrent.access_data)
  /\ drvPc' = "idle"
  /\ UNCHANGED <<drvCurrent, attempts, connected, drvRaised, validated>>
  /\ UNCHANGED <<agentVars, gatewayVars, aggVars, regVars, ctorVars>>

\* The instance is removed from the fleet; its pool goes with it.
DrvRemove(id) ==
  /\ drvPc = "idle"
  /\ id \in DOMAIN pools
  /\ pools' = [x \in DOMAIN pools \ {id} |-> pools[x]]
  /\ UNCHANGED <<drvPc, drvCurrent, attempts, connected, drvRaised,
                 validated>>
  /\ UNCHANGED <<agentVars, gatewayVars, aggVars, regVars, ctorVars>>

NextDriver ==
  \/ \E id \in Databases, ad \in AccessData : DrvRegister(id, ad)
  \/ DrvValidate
  \/ DrvCreate
  \/ \E id \in Databases : DrvRemove(id)

\* ================================================ construction of the agent
\* HyriseInterface.__init__ from line 32 on: the scheduler (and with it the
\* CounterFlush job) was started at line 31, before the attributes and the
\* redis keys the job uses are set. redis keeps its keys across runs of the
\* agent: the counter key may be absent or hold the value a previous run
\* left.
InitLines == <<"l32", "l33", "l40", "l41", "l42", "l35", "l36", "done">>
LineNo(l) == CHOOSE k \in DOMAIN InitLines : InitLines[k] = l

\* Lines 32 and 41 have run: the published value and the shared counter are
\* initialised.
Initialised == LineNo(initPc) > LineNo("l41")

\* State after construction, for the specifications that start there.
InitCtorVars ==
  /\ initPc = "done"
  /\ selfR = TRUE
  /\ tcSet = TRUE
  /\ counterKey = TRUE
  /\ fired = 0

\* State after line 31 (scheduler.start()).
InitConstruction ==
  /\ initPc = "l32"
  /\ selfR = FALSE
  /\ tcSet = FALSE
  /\ throughput_counter = <<>>
  /\ counterKey \in BOOLEAN
  /\ rCounter \in (IF counterKey THEN {0, 3} ELSE {0})
  /\ fired = 0
  /\ flushPc = "idle"
  /\ executed = 0
  /\ ticks = 0
  /\ publishedSum = 0
  /\ sinceTick = 0
  /\ epochTrue = 0
  /\ captured = 0
  /\ racing = FALSE
  /\ epochRaced = FALSE
  /\ InitLoopVars /\ InitGatewayVars /\ InitAggVars /\ InitRegVars
  /\ InitDrvVars

\* __init__ runs its next line (lines 32-36, with init_redis's lines 40-42
\* for line 34).
CtorStep ==
  /\ initPc # "done"
  /\ initPc' = InitLines[LineNo(initPc) + 1]
  /\ IF initPc = "l32"
     THEN /\ throughput_counter' = <<"0">>
          /\ tcSet' = TRUE
          /\ UNCHANGED <<selfR, rCounter, counterKey>>
     ELSE IF initPc = "l33"
     THEN /\ selfR' = TRUE
          /\ UNCHANGED <<throughput_counter, tcSet, rCounter, counterKey>>
     ELSE IF initPc = "l41"
     THEN /\ rCounter' = 0
          /\ counterKey' = TRUE
          /\ UNCHANGED <<throughput_counter, tcSet, selfR>>
     ELSE UNCHANGED <<throughput_counter, tcSet, selfR, rCounter,
                      counterKey>>
  /\ UNCHANGED <<flushPc, executed, ticks, publishedSum, sinceTick,
                 epochTrue, captured, racing, epochRaced, fired>>
  /\ UNCHANGED <<loopVars, gatewayVars, aggVars, regVars, drvVars>>

\* The scheduler fires the job: update_throughput, line 46. Without self.r,
\* or with r.get(...) returning None for an absent key, the line raises
\* AttributeError and the job ends; otherwise the value read is published.
CtorFlushRead ==
  /\ flushPc = "idle"
  /\ fired < MaxTicks
  /\ fired' = fired + 1
  /\ IF selfR /\ counterKey
     THEN /\ throughput_counter' = Utf8Decode(rCounter)
          /\ tcSet' = TRUE
          /\ flushPc' = "reset"
          /\ ticks' = ticks + 1
          /\ publishedSum' = publishedSum + rCounter
          /\ epochTrue' = sinceTick
          /\ sinceTick' = 0
          /\ captured' = rCounter
          /\ epochRaced' = racing
          /\ racing' = FALSE
     ELSE UNCHANGED <<throughput_counter, tcSet, flushPc, ticks,
                      publishedSum, epochTrue, sinceTick, captured,
                      epochRaced, racing>>
  /\ UNCHANGED <<rCounter, executed, initPc, selfR, counterKey>>
  /\ UNCHANGED <<loopVars, gatewayVars, aggVars, regVars, drvVars>>

\* A worker process counts an execution while the agent is constructed:
\* redis INCR, which creates an absent key.
CtorIncrement ==
  /\ executed < MaxExecutions
  /\ rCounter' = rCounter + 1
  /\ counterKey' = TRUE
  /\ executed' = executed + 1
  /\ sinceTick' = sinceTick + 1
  /\ racing' = (racing \/ flushPc = "reset")
  /\ UNCHANGED <<throughput_counter, flushPc, ticks, publishedSum, epochTrue,
                 captured, epochRaced, initPc, selfR, tcSet, fired>>
  /\ UNCHANGED <<loopVars, gatewayVars, aggVars, regVars, drvVars>>

NextConstruction ==
  \/ CtorStep
  \/ CtorFlushRead
  \/ FlushReset
  \/ CtorIncrement

\* ========================================================== specifications
Init == InitAgentVars /\ InitLoopVars /\ InitGatewayVars /\ InitAggVars
        /\ InitRegVars /\ InitDrvVars /\ InitCtorVars

SpecAgent == Init /\ [][NextAgent]_vars

SpecGateway == Init /\ [][NextGateway]_vars

SpecLookup == Init /\ [][NextLookup]_vars

SpecChannel == Init /\ [][NextChannel]_vars

SpecAggregator == Init /\ [][NextAggregator]_vars

SpecRegistry == Init /\ [][NextRegistry]_vars

SpecDriver == Init /\ [][NextDriver]_vars

SpecConstruction == InitConstruction /\ [][NextConstruction]_vars

\* Every handler thread keeps running and a live peer answers; nothing makes
\* a transport error or a peer failure happen.
SpecGatewayFair ==
  /\ SpecGateway
  /\ \A t \in Threads : WF_vars(ThreadStep(t))
  /\ \A s \in Sockets : WF_vars(PeerReply(s))

\* ================================================================== claims

\* C1: for every interleaving of increments with flush ticks, the sum of the
\* values published by all flush ticks plus the unflushed counter value
\* equals the number of increments (no increment is lost by a flush).
CountConserved ==
  flushPc = "idle" => publishedSum + rCounter = executed

\* C2: the value published by the flush tick that ends an epoch equals the
\* number of successful executions of that epoch (those after the previous
\* tick and up to this one), also when increments race the flush.
EpochValueExact ==
  ticks > 0 => StrToInt(throughput_counter) = epochTrue

\* C3: on each control channel at most one request is in flight at any time
\* (sent, its response not yet read), and every caller reads the response to
\* its own request.
SingleFlightPerChannel ==
  /\ \A s \in Sockets : InFlight(s) <= 1
  /\ \A t \in Threads : \A i \in 1..Len(readLog[t]) : readLog[t][i].to = t

\* C4: every control-channel call eventually returns to its caller, also when
\* the peer never replies.
CallsReturn ==
  \A t \in Threads : (pc[t] = "recv") ~> (pc[t] # "recv")

\* C5: after a call failed in transport between send and receive, no later
\* request is issued on the same socket handle (the sockets are created once
\* at import and never recreated, so a poisoned handle stays poisoned).
NoIssueOnPoisonedHandle ==
  ~issuedOnPoisoned

\* C6: StartWorkload: when the response returned for 'start worker' has a
\* status other than 200, the invocation ends with an error envelope and has
\* sent nothing but 'start worker': no 'start workload' goes to the generator.
StartStep1FailureStops ==
  \A t \in Threads :
    (/\ op[t] = "post"
     /\ Len(readLog[t]) >= 1
     /\ ValidResponse(readLog[t][1])
     /\ readLog[t][1].header.status # 200)
    => /\ pc[t] = "done"
       /\ result[t].kind = "response"
       /\ result[t].response.header.status = 400
       /\ result[t].response.body.error # "none"
       /\ sentLog[t] =
            <<[socket |-> "db_manager_socket", message |-> "start worker"]>>

StartStep1Failed ==
  \E t \in Threads :
    /\ op[t] = "post"
    /\ pc[t] = "done"
    /\ Len(readLog[t]) = 1
    /\ readLog[t][1].header.status = 400

\* C7: StopWorkload: when the response returned for 'stop workload' has a
\* status other than 200, the invocation returns that response's error (the
\* fixed message when it has none) and has sent nothing but 'stop workload':
\* no 'close worker' goes to the Fleet Manager.
StopStep1FailureStops ==
  \A t \in Threads :
    (/\ op[t] = "delete"
     /\ Len(readLog[t]) >= 1
     /\ ValidResponse(readLog[t][1])
     /\ readLog[t][1].header.status # 200)
    => /\ pc[t] = "done"
       /\ result[t].kind = "response"
       /\ result[t].response.header.status = 400
       /\ result[t].response.body.error =
            (IF readLog[t][1].body.error = "none"
             THEN "Error during stopping of generator"
             ELSE readLog[t][1].body.error)
       /\ sentLog[t] =
            <<[socket |-> "generator_socket", message |-> "stop workload"]>>

StopStep1Failed ==
  \E t \in Threads :
    /\ op[t] = "delete"
    /\ pc[t] = "done"
    /\ Len(readLog[t]) = 1
    /\ readLog[t][1].header.status = 400
    /\ readLog[t][1].body.error = "E_remote"

\* C8: in every StopWorkload invocation 'close worker' is sent to the Fleet
\* Manager only as the second request, after 'stop workload' went to the
\* generator and a response with status 200 was read for it; in every
\* StartWorkload invocation 'start workload' is sent only as the second
\* request, after 'start worker' returned 200: the two workflows visit the
\* sockets in reverse order.
StepsInOrder ==
  \A t \in Threads :
    /\ \A i \in 1..Len(sentLog[t]) :
         /\ sentLog[t][i].message \in {"close worker", "start workload"}
              => /\ i = 2
                 /\ Len(readLog[t]) >= 1
                 /\ readLog[t][1].header.status = 200
         /\ sentLog[t][i].message \in {"stop workload", "start worker"}
              => i = 1
    /\ (op[t] = "delete" /\ Len(sentLog[t]) >= 1)
         => sentLog[t][1] =
              [socket |-> "generator_socket", message |-> "stop workload"]
    /\ (op[t] = "delete" /\ Len(sentLog[t]) >= 2)
         => sentLog[t][2] =
              [socket |-> "db_manager_socket", message |-> "close worker"]
    /\ (op[t] = "post" /\ Len(sentLog[t]) >= 1)
         => sentLog[t][1] =
              [socket |-> "db_manager_socket", message |-> "start worker"]
    /\ (op[t] = "post" /\ Len(sentLog[t]) >= 2)
         => sentLog[t][2] =
              [socket |-> "generator_socket", message |-> "start workload"]
    /\ Len(sentLog[t]) <= 2

BothWorkflowsAtStep2 ==
  \E t, u \in Threads :
    /\ op[t] = "delete" /\ Len(sentLog[t]) = 2
    /\ op[u] = "post" /\ Len(sentLog[u]) = 2

\* C9: StartWorkload: when 'start worker' returned 200 and the response
\* returned for 'start workload' has another status, the invocation returns
\* step 2's error and has sent exactly 'start worker' and 'start workload':
\* no 'close worker' or any further request goes to the Fleet Manager.
StartStep2FailureNoCompensation ==
  \A t \in Threads :
    (/\ op[t] = "post"
     /\ Len(readLog[t]) = 2
     /\ ValidResponse(readLog[t][2])
     /\ readLog[t][2].header.status # 200)
    => /\ pc[t] = "done"
       /\ readLog[t][1].header.status = 200
       /\ result[t].kind = "response"
       /\ result[t].response.header.status = 400
       /\ result[t].response.body.error =
            (IF readLog[t][2].body.error = "none"
             THEN "Error during starting of the workload"
             ELSE readLog[t][2].body.error)
       /\ sentLog[t] =
            <<[socket |-> "db_manager_socket", message |-> "start worker"],
              [socket |-> "generator_socket", message |-> "start workload"]>>

StartStep2Failed ==
  \E t \in Threads :
    /\ op[t] = "post"
    /\ pc[t] = "done"
    /\ Len(readLog[t]) = 2
    /\ readLog[t][2].header.status = 400

\* C10: StartWorkload and StopWorkload return the same envelope on success:
\* status 200 and an empty body, with no payload of a backend response.
SuccessEnvelopeEmpty ==
  \A t \in Threads :
    (/\ pc[t] = "done"
     /\ result[t].kind = "response"
     /\ result[t].response.header.status = 200)
    => result[t].response.body = EmptyBody

\* C11: when a workflow step's response has a non-success status, the error
\* message returned to the caller is the 'error' string of that response's
\* body if it has one, and otherwise the fixed message of that step.
ErrorMessagePropagated ==
  \A t \in Threads :
    (/\ pc[t] = "done"
     /\ op[t] \in WorkflowOps
     /\ readLog[t] # <<>>
     /\ ValidResponse(readLog[t][Len(readLog[t])])
     /\ readLog[t][Len(readLog[t])].header.status # 200)
    => LET k == Len(readLog[t])
           remote == readLog[t][k].body.error
           generic ==
             IF op[t] = "post"
             THEN IF k = 1 THEN "Error during starting of worker"
                  ELSE "Error during starting of the workload"
             ELSE IF k = 1 THEN "Error during stopping of generator"
                  ELSE "Error during closing of worker"
       IN /\ result[t].kind = "response"
          /\ result[t].response.body.error =
               (IF remote # "none" THEN remote ELSE generic)

RemoteAndGenericMessages ==
  \E t, u \in Threads :
    /\ pc[t] = "done" /\ op[t] = "delete" /\ Len(readLog[t]) = 2
    /\ readLog[t][2].header.status = 400
    /\ readLog[t][2].body.error = "none"
    /\ pc[u] = "done" /\ op[u] = "post" /\ Len(readLog[u]) = 1
    /\ readLog[u][1].header.status = 400
    /\ readLog[u][1].body.error = "E_remote"

\* C12: within one workflow invocation every command is sent at most once
\* and at most one request goes to each of the two sockets; a step that
\* failed or returned a non-success status is not sent again.
SendsAtMostOnce ==
  \A t \in Threads :
    \A i, j \in 1..Len(sentLog[t]) :
      i # j => /\ sentLog[t][i].message # sentLog[t][j].message
               /\ sentLog[t][i].socket # sentLog[t][j].socket

StopStep2Failed ==
  \E t \in Threads :
    /\ pc[t] = "done"
    /\ op[t] = "delete"
    /\ Len(sentLog[t]) = 2
    /\ result[t].kind = "response"
    /\ result[t].response.header.status = 400
    /\ result[t].response.body.error = "E_remote"

\* C13: the 'throughput' command answers with the value the most recent
\* CounterFlush tick captured ("0" before the first tick), never with the
\* live counter: increments after that tick do not change the answer.
ThroughputIsPublished ==
  [][(/\ agentPc = "dispatch"
      /\ data.ctype = "throughput"
      /\ agentPc' # agentPc)
     => /\ agentPc' = "recv"
        /\ lastResponse' = JsonThroughput(Utf8Decode(captured))]_vars

ThroughputAnsweredWhileCounting ==
  /\ agentPc = "recv"
  /\ data.ctype = "throughput"
  /\ sent = received
  /\ ticks > 0
  /\ flushPc = "idle"
  /\ rCounter > 0
  /\ rCounter # captured
  /\ lastResponse = JsonThroughput(Utf8Decode(captured))

\* C14: when exactly k queries execute successfully within one epoch and no
\* increment is concurrent with a flush, the 'throughput' command issued
\* after the next flush tick answers k (as its decimal string).
ThroughputAfterTickIsK ==
  [][(/\ agentPc = "dispatch"
      /\ data.ctype = "throughput"
      /\ agentPc' # agentPc
      /\ ticks > 0
      /\ ~epochRaced)
     => /\ lastResponse'.text = "json"
        /\ StrToInt(lastResponse'.throughput) = epochTrue]_vars

TwoQueriesReported ==
  /\ agentPc = "recv"
  /\ data.ctype = "throughput"
  /\ sent = received
  /\ ticks > 0
  /\ ~epochRaced
  /\ epochTrue = 2
  /\ lastResponse = JsonThroughput(<<"2">>)

\* C15: the 'query' command answers OK and increments the counter by exactly
\* 1 when the statement succeeds; when the database reports an error the
\* agent sends a response that is not OK, leaves the counter unchanged and
\* keeps serving.
QueryContract ==
  [][/\ (/\ agentPc = "dispatch"
         /\ data.ctype = "query"
         /\ remaining # <<>>
         /\ (remaining' # remaining \/ agentPc' # agentPc))
        => IF data.content[1] = "ok"
           THEN rCounter' = rCounter + 1 /\ agentPc' = "dispatch"
           ELSE rCounter' = rCounter /\ agentPc' # "crashed"
     /\ (/\ agentPc = "dispatch"
         /\ data.ctype = "query"
         /\ remaining = <<>>
         /\ agentPc' # agentPc)
        => /\ agentPc' = "recv"
           /\ sent' = sent + 1
           /\ (lastResponse'.text = "OK") <=> (data.content[1] = "ok")]_vars

\* C16: for a request whose command name is none of the recognised ones the
\* agent sends the explicit error response and is back at Idle, ready to
\* receive and answer the next request.
UnknownCommandAnswered ==
  [][(/\ agentPc = "dispatch"
      /\ data.ctype \notin {"query", "workload", "storage_data", "throughput",
                            "runtime_information", "none"}
      /\ agentPc' # agentPc)
     => /\ agentPc' = "recv"
        /\ sent' = sent + 1
        /\ lastResponse' = Text("[Error]")]_vars

UnknownCommandThenNext ==
  /\ agentPc = "recv"
  /\ data.ctype = "bogus"
  /\ received = 2
  /\ sent = 2
  /\ lastResponse = Text("[Error]")

\* C17: the 'storage_data' command answers with the stored snapshot, and with
\* an empty result when no snapshot is stored yet; in both cases the agent
\* keeps serving commands.
StorageDataContract ==
  [][(/\ agentPc = "dispatch"
      /\ data.ctype = "storage_data"
      /\ agentPc' # agentPc)
     => /\ agentPc' = "recv"
        /\ sent' = sent + 1
        /\ IF storage_data = "none"
           THEN lastResponse'.text \in {"", "{}", "[]"}
           ELSE lastResponse'.text = storage_data]_vars

\* C18: the dispatch loop is strictly request/response: every request read
\* gets exactly one response, sent before the next request is read.
LoopLockstep ==
  /\ agentPc = "dispatch" => received = sent + 1
  /\ agentPc # "dispatch" => received = sent

\* C19: a response is validated against the schema of the issued command
\* before a field of it is used: a response that is a well-formed envelope
\* but lacks the field the command requires is rejected by validation.
CommandSchemaChecked ==
  \A t \in Threads :
    (/\ pc[t] = "done"
     /\ op[t] \in LookupOps
     /\ readLog[t] # <<>>
     /\ (~ValidResponse(readLog[t][1]) \/ readLog[t][1].body.data = "none"))
    => result[t] = Raised("ValidationError")

\* C20: when a workflow's command response is missing a required field, the
\* caller's outcome is the validation failure: the handler never completes
\* with a response built from it (no status, message or body is made up).
MalformedResponseRejected ==
  \A t \in Threads :
    /\ (/\ pc[t] = "done"
        /\ readLog[t] # <<>>
        /\ ~ValidResponse(readLog[t][Len(readLog[t])]))
       => result[t] = Raised("ValidationError")
    /\ (\E i \in 1..Len(readLog[t]) : ~ValidResponse(readLog[t][i]))
       => /\ pc[t] = "done"
          /\ result[t].kind # "response"

MalformedSecondResponse ==
  \E t \in Threads :
    /\ pc[t] = "done"
    /\ Len(readLog[t]) = 2
    /\ ~ValidResponse(readLog[t][2])
    /\ result[t].kind = "ValidationError"

\* C31: a response that fails schema validation does not break the channel's
\* lock-step. The response has been read in full when validation fails (it
\* is off the wire and the socket is back in its send state), so the next
\* request on the same channel is a legal send (it passes, and no reply was
\* outstanding) and gets its own response (nothing else is in flight on the
\* channel when it is sent: the first reply to arrive answers it).
LockStepAfterViolation ==
  [][\A t \in Threads :
       /\ (/\ pc[t] = "recv"
           /\ pc'[t] = "done"
           /\ result'[t] = Raised("ValidationError"))
          => /\ ~receiving'[SocketOf(t)]
             /\ resps'[SocketOf(t)] = Tail(resps[SocketOf(t)])
             /\ readLog'[t] = Append(readLog[t], Head(resps[SocketOf(t)]))
       /\ (/\ pc[t] = "send"
           /\ pc'[t] # "send"
           /\ afterViolation[SocketOf(t)])
          => /\ pc'[t] = "recv"
             /\ ~receiving[SocketOf(t)]
             /\ InFlight(SocketOf(t)) = 0]_vars

\* ------------------------------------------------------ Metrics Aggregator
\* The window of the call being served, as the clock stood at its start.
CallNow == windows[Len(windows)].now

\* C21 (as stated): two aggregation calls made at different values of 'now'
\* never query overlapping windows: for any now1 < now2 the intervals
\* (now1-2e, now1-e] and (now2-2e, now2-e] are disjoint.
WindowsNeverOverlap ==
  \A i, j \in DOMAIN windows :
    windows[i].now < windows[j].now
      => windows[i].endts <= windows[j].startts

\* C21 (amended): two aggregation calls made at values of 'now' at least one
\* epoch apart never query overlapping windows: for now2 >= now1 + e the
\* intervals (now1-2e, now1-e] and (now2-2e, now2-e] are disjoint.
WindowsDisjointEpochApart ==
  \A i, j \in DOMAIN windows :
    windows[j].now - windows[i].now >= Epoch
      => windows[i].endts <= windows[j].startts

\* Two calls were made exactly one epoch apart, and each queried the store.
CallsOneEpochApart ==
  /\ Len(windows) = 2
  /\ windows[2].now - windows[1].now = Epoch
  /\ aggPc = "done"
  /\ queries # <<>>

\* C22: in every metrics variant each store query selects exactly the
\* points with now - 2e < time <= now - e, for the time 'now' read at the
\* start of the call and e = one epoch: start exclusive, end inclusive,
\* width one epoch, ending one epoch before 'now'.
WindowExact ==
  [][Len(queries') > Len(queries)
     => \A i \in (Len(queries) + 1)..Len(queries') :
          LET q == queries'[i]
          IN  /\ q.endts = CallNow - Epoch
              /\ q.startts = CallNow - 2 * Epoch
              /\ q.endts - q.startts = Epoch
              /\ q.rows = {x \in store : /\ x.db = q.database
                                         /\ x.time > CallNow - 2 * Epoch
                                         /\ x.time <= CallNow - Epoch}]_vars

\* A query ran while the database had one point exactly at the end of the
\* window (selected) and one exactly at its start (not selected).
PointsOnBothEdges ==
  /\ aggPc = "done"
  /\ \E i \in DOMAIN queries :
       /\ \E x \in queries[i].rows : x.time = queries[i].endts
       /\ \E x \in store : /\ x.db = queries[i].database
                           /\ x.time = queries[i].startts
                           /\ x \notin queries[i].rows

\* C23: in the fleet-wide throughput and latency variants the result's key
\* set equals the set of ids the membership lookup returned, and a database
\* with no matching sample in the window maps to 0.
FleetKeysAndZero ==
  (aggPc = "done" /\ variant \in FleetWide /\ aggResult.kind = "response")
    => /\ DOMAIN aggResult.value =
            {active_databases[i] : i \in DOMAIN active_databases}
       /\ \A i \in DOMAIN queries :
            queries[i].rows = {}
              => IF variant = "throughput"
                 THEN aggResult.value[queries[i].database] = 0
                 ELSE aggResult.value[queries[i].database] = Number(0)

\* A fleet-wide result over two databases, one without a matching sample.
FleetResultWithIdleDatabase ==
  /\ aggPc = "done"
  /\ variant \in FleetWide
  /\ aggResult.kind = "response"
  /\ Len(active_databases) = 2
  /\ \E i, j \in DOMAIN queries :
       queries[i].rows = {} /\ queries[j].rows # {}

TagsOfRows(rows) ==
  {[benchmark |-> x.benchmark, query_no |-> x.query_no] : x \in rows}
TagsOfEntries(entries) ==
  {[benchmark |-> entries[k].benchmark, query_no |-> entries[k].query_number]
     : k \in DOMAIN entries}

\* C24: in the detailed variants every active database has its list, the
\* list has exactly one entry per (benchmark, query_no) pair that has rows
\* in the window and none for a pair without rows; a database without rows
\* has the empty list.
DetailedOneEntryPerTagPair ==
  (aggPc = "done" /\ variant \in Variants \ FleetWide
                  /\ aggResult.kind = "list")
    => /\ Len(aggResult.value) = Len(active_databases)
       /\ \A i \in DOMAIN aggResult.value :
            LET entries == aggResult.value[i].entries
                rows == {x \in queries[i].rows :
                           x.db = active_databases[i]}
            IN  /\ aggResult.value[i].id = active_databases[i]
                /\ TagsOfEntries(entries) = TagsOfRows(rows)
                /\ Len(entries) = Cardinality(TagsOfRows(rows))

\* A detailed result: one database has rows for one tag pair only, the
\* other has none.
DetailedResultWithGaps ==
  /\ aggPc = "done"
  /\ variant \in {"detailed_throughput", "detailed_latency"}
  /\ aggResult.kind = "list"
  /\ \E i, j \in DOMAIN aggResult.value :
       /\ Len(aggResult.value[i].entries) = 1
       /\ aggResult.value[j].entries = <<>>

\* C25: when the response to 'get databases' fails validation, the
\* aggregation call returns 500 and has issued no query to the store.
LookupFailureFailsFast ==
  (aggPc = "done" /\ lookup = "invalid")
    => /\ aggResult.kind = "int"
       /\ aggResult.status = 500
       /\ queries = <<>>

\* A call ended after an invalid lookup response while the store held data.
InvalidLookupWithData ==
  /\ aggPc = "done"
  /\ lookup = "invalid"
  /\ store # {}

\* C26: the combined variant issues exactly one store query per active
\* database, and the throughput and the latency of every tag group are
\* the count and the mean of that query's rows.
CombinedOneQuery ==
  (aggPc = "done" /\ variant = "detailed_query_information"
                  /\ aggResult.kind = "list")
    => /\ Len(queries) = Len(active_databases)
       /\ \A i \in DOMAIN queries :
            /\ queries[i].database = active_databases[i]
            /\ queries[i].select = "COUNT,MEAN"
            /\ queries[i].startts = startts
            /\ queries[i].endts = endts
            /\ \A k \in DOMAIN aggResult.value[i].entries :
                 LET entry == aggResult.value[i].entries[k]
                     group == {x \in queries[i].rows :
                                 /\ x.benchmark = entry.benchmark
                                 /\ x.query_no = entry.query_number}
                 IN  /\ entry.throughput = Cardinality(group)
                     /\ entry.latency.den = Cardinality(group)
                     /\ entry.latency.num = SumLatency(group)

\* A combined result in which one tag group has two samples.
CombinedResultWithPair ==
  /\ aggPc = "done"
  /\ variant = "detailed_query_information"
  /\ aggResult.kind = "list"
  /\ \E i \in DOMAIN aggResult.value :
       \E k \in DOMAIN aggResult.value[i].entries :
         aggResult.value[i].entries[k].throughput = 2

\* C33: within one aggregation call every per-database store query uses the
\* same window; its bounds come from the one clock reading made before the
\* membership lookup and do not change between databases, however far the
\* clock moves during the call.
OneWindowPerCall ==
  /\ aggPc = "lookup"
       => /\ Len(windows) = calls
          /\ currentts = CallNow
          /\ startts = StartTs(CallNow)
          /\ endts = EndTs(CallNow)
  /\ \A i \in DOMAIN queries :
       /\ queries[i].startts = StartTs(CallNow)
       /\ queries[i].endts = EndTs(CallNow)
       /\ \A j \in DOMAIN queries :
            /\ queries[j].startts = queries[i].startts
            /\ queries[j].endts = queries[i].endts

\* A call over two databases returned, and the clock moved while it ran.
TwoDatabasesWhileClockMoved ==
  /\ aggPc = "done"
  /\ Len(queries) = 2
  /\ queries[1].database # queries[2].database
  /\ now # CallNow

\* --------------------------------------------------------- Instance registry
\* C27: the registry holds one entry per id; adding an id that is already
\* registered returns False and leaves the existing entry and the whole
\* registry unchanged.
AddRegisteredRejected ==
  [][(regCall'.op = "add" /\ regVars' # regVars
        /\ regCall'.id \in DOMAIN databases)
     => /\ regCall'.ret = ReturnFalse
        /\ databases' = databases]_vars

\* An add of a registered id, with other connection data, was rejected.
AddOfRegisteredIdSeen ==
  /\ regCall.op = "add"
  /\ regCall.ret = ReturnFalse
  /\ regCall.id \in DOMAIN databases
  /\ databases[regCall.id] # regCall.entry

\* C32: pop_hyrise_instance of an id that is not registered returns False
\* and leaves the registry unchanged; add_hyrise_instance of a fresh id
\* followed by pop_hyrise_instance of the same id returns that id both times
\* and leaves the registry as it was before the add.
PopContract ==
  [][/\ (/\ regCall'.op = "pop"
         /\ regVars' # regVars
         /\ regCall'.id \notin DOMAIN databases)
        => /\ regCall'.ret = ReturnFalse
           /\ databases' = databases
     /\ (/\ regCall'.op = "pop"
         /\ regCall.op = "add"
         /\ regCall.id = regCall'.id
         /\ regCall.id \notin DOMAIN regCall.before)
        => /\ regCall.ret = ReturnId(regCall.id)
           /\ regCall'.ret = ReturnId(regCall.id)
           /\ databases' = regCall.before]_vars

\* A fresh id was added to a registry that held another instance and was
\* popped right after.
AddThenPopSeen ==
  /\ regCall.op = "pop"
  /\ regCall.prev = <<"add", regCall.id>>
  /\ regCall.ret = ReturnId(regCall.id)
  /\ regCall.id \notin DOMAIN databases
  /\ databases # EmptyDict
  /\ regCall.before # databases

FlushOnlyAfterInit ==
  [][/\ fired' # fired => Initialised
     /\ (initPc = "l32" /\ initPc' # initPc) => ticks = 0]_vars

\* ------------------------------------------------- frame of the dispatch loop
\* C30: handling 'throughput', 'storage_data', 'runtime_information' or an
\* unrecognised command leaves the live counter, the published throughput
\* and the instance registry unchanged; the counter changes only by an
\* execution (plus one) and by CounterFlush's reset (to 0).
ReadCommandsChangeNothing ==
  [][/\ (/\ agentPc = "dispatch"
         /\ data.ctype \in {"throughput", "storage_data",
                            "runtime_information", "bogus"}
         /\ agentPc' # agentPc)
        => /\ rCounter' = rCounter
           /\ throughput_counter' = throughput_counter
           /\ databases' = databases
     /\ rCounter' # rCounter
        => \/ rCounter' = rCounter + 1 /\ executed' = executed + 1
           \/ flushPc = "reset" /\ flushPc' = "idle" /\ rCounter' = 0]_vars

\* 'runtime_information' was answered while the counter was live and a tick
\* had published a value other than the initial one.
RuntimeInformationWhileCounting ==
  /\ agentPc = "recv"
  /\ data.ctype = "runtime_information"
  /\ sent = received
  /\ rCounter > 0
  /\ ticks > 0
  /\ throughput_counter # <<"0">>

====
